---- MODULE Spec2Model ----
(***************************************************************************)
(* passchecker (src/src/main.rs): a password is taken from the command     *)
(* line or from one line of standard input, four tests are run over it in  *)
(* declaration order (each possibly disabled with -i), and a summary line  *)
(* "Passed S out of E tests (P%), N ignored" is printed.                   *)
(*                                                                         *)
(* Strings are sequences of Unicode scalar values (code points).           *)
(* Option<T> is a sequence of length 0 (None) or 1 (Some).                 *)
(* f64 / f32 quotients of small integers are kept as exact fractions.      *)
(***************************************************************************)
EXTENDS Integers, Sequences, FiniteSets, TLC

VARIABLES cli, buf, password, pc, idx, results, enabled_count, successes, summary

vars == <<cli, buf, password, pc, idx, results, enabled_count, successes, summary>>

(***************************************************************************)
(* Bounds of the explored inputs.                                          *)
(***************************************************************************)
MaxPassLen == 2

(***************************************************************************)
(* Option<T>                                                               *)
(***************************************************************************)
None == <<>>
Some(x) == <<x>>
IsSome(o) == Len(o) = 1
UnwrapOr(o, d) == IF Len(o) = 1 THEN o[1] ELSE d

\* A let binding: Only({e(x) : x \in {v}}) is e(v) with v evaluated once,
\* as a Rust `let x = v;` does.
Only(S) == CHOOSE x \in S : TRUE

Max(a, b) == IF a >= b THEN a ELSE b
Min(a, b) == IF a <= b THEN a ELSE b

(***************************************************************************)
(* Characters and strings (Rust std).                                      *)
(***************************************************************************)
LF == 10
CR == 13

\* char::len_utf8
Utf8Len(c) == IF c < 128 THEN 1 ELSE IF c < 2048 THEN 2 ELSE IF c < 65536 THEN 3 ELSE 4

RECURSIVE SumUtf8(_)
SumUtf8(s) == IF s = <<>> THEN 0 ELSE Utf8Len(Head(s)) + SumUtf8(Tail(s))

\* str::chars().count()
CharCount(s) == Len(s)

\* str::len(): the length in bytes of the UTF-8 encoding
StrLen(s) == SumUtf8(s)

\* char::is_ascii_digit
IsAsciiDigit(c) == c >= 48 /\ c <= 57

\* char::is_ascii_punctuation
IsAsciiPunctuation(c) ==
    \/ (c >= 33 /\ c <= 47)
    \/ (c >= 58 /\ c <= 64)
    \/ (c >= 91 /\ c <= 96)
    \/ (c >= 123 /\ c <= 126)

\* pass.chars().any(|c| c.is_ascii_digit())
AnyAsciiDigit(s) == \E i \in 1..Len(s) : IsAsciiDigit(s[i])

\* pass.chars().any(|c| c.is_ascii_punctuation())
AnyAsciiPunctuation(s) == \E i \in 1..Len(s) : IsAsciiPunctuation(s[i])

\* str_replace!(text, ch, ""): every occurrence of ch removed
RECURSIVE StrRemove(_, _)
StrRemove(s, ch) ==
    IF s = <<>> THEN <<>>
    ELSE IF Head(s) = ch THEN StrRemove(Tail(s), ch)
    ELSE <<Head(s)>> \o StrRemove(Tail(s), ch)

\* str_split!(text, ch): the pieces between separators, empty pieces kept
RECURSIVE StrSplitAcc(_, _, _, _)
StrSplitAcc(s, ch, cur, acc) ==
    IF s = <<>> THEN Append(acc, cur)
    ELSE IF Head(s) = ch THEN StrSplitAcc(Tail(s), ch, <<>>, Append(acc, cur))
    ELSE StrSplitAcc(Tail(s), ch, Append(cur, Head(s)), acc)

StrSplit(s, ch) == StrSplitAcc(s, ch, <<>>, <<>>)

StripCr(line) ==
    IF Len(line) > 0 /\ line[Len(line)] = CR THEN SubSeq(line, 1, Len(line) - 1) ELSE line

RECURSIVE StripCrEach(_)
StripCrEach(pieces) ==
    IF pieces = <<>> THEN <<>> ELSE <<StripCr(Head(pieces))>> \o StripCrEach(Tail(pieces))

\* str::lines(): split on '\n', a final empty piece dropped, one trailing '\r' stripped
Lines(s) ==
    Only({ StripCrEach(IF pieces[Len(pieces)] = <<>>
                       THEN SubSeq(pieces, 1, Len(pieces) - 1)
                       ELSE pieces) :
             pieces \in {StrSplit(s, LF)} })

(***************************************************************************)
(* similar_string (external crate): similarity by longest common           *)
(* subsequence, lcs / max(len), and the best entry of a slice.             *)
(***************************************************************************)
\* One row of the table from the row above it.
RECURSIVE LcsRow(_, _, _, _)
LcsRow(prev, ch, b, row) ==
    IF Len(row) = Len(b) + 1 THEN row
    ELSE Only({ LcsRow(prev, ch, b, Append(row, cell)) :
                  cell \in { IF ch = b[Len(row)]
                             THEN prev[Len(row)] + 1
                             ELSE Max(prev[Len(row) + 1], row[Len(row)]) } })

RECURSIVE LcsRows(_, _, _, _)
LcsRows(a, b, i, prev) ==
    IF i > Len(a) THEN prev[Len(b) + 1]
    ELSE Only({ LcsRows(a, b, i + 1, row) : row \in {LcsRow(prev, a[i], b, <<0>>)} })

lcs_length(a, b) == LcsRows(a, b, 1, [j \in 1..(Len(b) + 1) |-> 0])

\* A non-negative f64 quotient of two small integers, kept exact.
Frac(n, d) == [num |-> n, den |-> d]
FracLess(x, y) == x.num * y.den < y.num * x.den

compare_similarity(left, right) ==
    Only({ IF Max(CharCount(a), CharCount(b)) = 0
           THEN Frac(1, 1)
           ELSE Frac(lcs_length(a, b), Max(CharCount(a), CharCount(b))) :
             a \in {left}, b \in {right} })

\* The scan keeps the first entry whose score is strictly the highest so far.
RECURSIVE BestFrom(_, _, _, _)
BestFrom(taken, from, i, best) ==
    IF i > Len(from) THEN best
    ELSE Only({ BestFrom(taken, from, i + 1,
                         IF best = None \/ FracLess(best[1].score, score)
                         THEN Some([entry |-> from[i], score |-> score])
                         ELSE best) :
                  score \in {compare_similarity(from[i], taken)} })

find_best_similarity(taken, from) ==
    Only({ BestFrom(t, f, 1, None) : t \in {taken}, f \in {from} })

(***************************************************************************)
(* The environment: the embedded wordlist and the files that can be read.  *)
(***************************************************************************)
\* include_str!("../wordlist"): "password\r\nqwerty\n"
EmbeddedWordlistText == <<112, 97, 115, 115, 119, 111, 114, 100, CR, LF, 113, 119, 101, 114, 116, 121, LF>>

\* static WORDLIST
WORDLIST == StrSplit(StrRemove(EmbeddedWordlistText, CR), LF)

\* Readable files: "words.txt" holds "a1\r\n!\n", "pw.txt" holds
\* "password\nqwerty", "empty.txt" holds nothing. Any other path cannot be read.
Files ==
    [p \in {"words.txt", "pw.txt", "empty.txt"} |->
        CASE p = "words.txt" -> <<97, 49, CR, LF, 33, LF>>
          [] p = "pw.txt" -> <<112, 97, 115, 115, 119, 111, 114, 100, LF, 113, 119, 101, 114, 116, 121>>
          [] OTHER -> <<>>]

\* fs::read_to_string
read_to_string(path) ==
    IF path \in DOMAIN Files THEN [ok |-> TRUE, text |-> Files[path]]
    ELSE [ok |-> FALSE, text |-> <<>>]

(***************************************************************************)
(* The four tests.  A test returns (Option<bool>, info).                   *)
(***************************************************************************)
DEFAULT_MIN_LENGTH == 8

Ignores == {"MinimumChars", "Numbers", "SpecialChars", "WordlistCollisions"}

Info(msg, args) == [msg |-> msg, args |-> args]
EmptyInfo == Info("", <<>>)

\* pass.len()
PasswordLength(pass) == StrLen(pass)

LengthTest(c, pass) ==
    LET min_length == UnwrapOr(c.min_length, DEFAULT_MIN_LENGTH)
        len == PasswordLength(pass)
        outcome == len >= min_length
    IN <<Some(outcome),
         IF outcome THEN EmptyInfo
         ELSE Info("Password too short: {}/{} characters", <<len, min_length>>)>>

NumbersTest(c, pass) ==
    LET outcome == AnyAsciiDigit(pass)
    IN <<Some(outcome),
         IF outcome THEN EmptyInfo ELSE Info("No numeric chacacters in password", <<>>)>>

SpecialCharsTest(c, pass) ==
    LET outcome == AnyAsciiPunctuation(pass)
    IN <<Some(outcome),
         IF outcome THEN EmptyInfo ELSE Info("No special chacacters in password", <<>>)>>

\* Mutant: the configured percentage used without the clamp to 99.
SimilarityThreshold_Unclamped(c) == Frac(UnwrapOr(c.similarity, 97), 100)

\* cli.similarity.unwrap_or(97).min(99) as f64 / 100.0
SimilarityThreshold(c) == Frac(Min(UnwrapOr(c.similarity, 97), 99), 100)

\* Mutant: the comparison reversed, a close match passing.
CollisionVerdict_Inverted(best, c) ==
    IsSome(best) /\ ~FracLess(best[1].score, Frac(Min(UnwrapOr(c.similarity, 97), 99), 100))

\* Mutant: no match at all counted as a pass.
CollisionVerdict_EmptyPasses(best, c) ==
    IF IsSome(best)
    THEN FracLess(best[1].score, Frac(Min(UnwrapOr(c.similarity, 97), 99), 100))
    ELSE TRUE

\* outcome.is_some() && outcome.unwrap().1 < threshold
CollisionVerdict(best, c) ==
    IsSome(best) /\ FracLess(best[1].score, SimilarityThreshold(c))

BestMatchInfo(best, otherwise) ==
    IF IsSome(best)
    THEN Info("Best match in wordlist is {} with similarity {}%",
              <<best[1].entry, Frac(best[1].score.num * 100, best[1].score.den)>>)
    ELSE otherwise

\* Mutant: an unreadable wordlist reported as an ignored test.
UnreadableWordlist_Ignored(path) ==
    <<None, Info("Failed to read file '{}'. Aborting.", <<path>>)>>

\* What the test returns when the wordlist file cannot be read.
UnreadableWordlist(path) ==
    <<Some(FALSE), Info("Failed to read file '{}'. Aborting.", <<path>>)>>

WordlistTest(c, pass) ==
    IF IsSome(c.wordlist)
    THEN LET file == read_to_string(c.wordlist[1])
         IN IF ~file.ok THEN UnreadableWordlist(c.wordlist[1])
            ELSE Only({ <<Some(CollisionVerdict(best, c)), BestMatchInfo(best, EmptyInfo)>> :
                          best \in {find_best_similarity(pass, Lines(file.text))} })
    ELSE Only({ <<Some(CollisionVerdict(best, c)),
                  BestMatchInfo(best,
                      Info("No wordlist provided, defaulting to internal wordlist(10k most common passwords).", <<>>))>> :
                  best \in {find_best_similarity(pass, WORDLIST)} })

\* let tests = [...]
Tests(c) ==
    << [name |-> <<"At least {} characters", UnwrapOr(c.min_length, DEFAULT_MIN_LENGTH)>>,
        test |-> "length", ignore |-> "MinimumChars"],
       [name |-> <<"numbers">>, test |-> "numbers", ignore |-> "Numbers"],
       [name |-> <<"quirky characters">>, test |-> "special", ignore |-> "SpecialChars"],
       [name |-> <<"collisions in wordlist">>, test |-> "wordlist", ignore |-> "WordlistCollisions"] >>

\* test(&cli, &password): the call through the fn pointer
CallTest(t, c, pass) ==
    CASE t.test = "length" -> LengthTest(c, pass)
      [] t.test = "numbers" -> NumbersTest(c, pass)
      [] t.test = "special" -> SpecialCharsTest(c, pass)
      [] t.test = "wordlist" -> WordlistTest(c, pass)

\* Mutant: any -i flag disables every test.
IsIgnored_AnyFlag(c, ignore) == IsSome(c.ignore)

\* cli.ignore.as_deref().map(|x| x.contains(&ignore)) == Some(true)
IsIgnored(c, ignore) == IsSome(c.ignore) /\ ignore \in c.ignore[1]

\* The (outcome, info) pair of one pass through the filter closure.
Evaluate(t, c, pass) ==
    IF IsIgnored(c, t.ignore)
    THEN <<None, Info("disabled with -i {:?}", <<t.ignore>>)>>
    ELSE CallTest(t, c, pass)

\* Mutant: ignored tests counted as enabled.
CountEnabled_All(count, outcome) == count + 1

\* if outcome.is_some() { enabled_count += 1 }   (a u32 incremented at most
\* tests.len() times, so it never wraps)
CountEnabled(count, outcome) == IF IsSome(outcome) THEN count + 1 ELSE count

\* Mutant: the iteration stops at the first failed test.
AfterTest_StopOnFail(outcome) == IF outcome = Some(FALSE) THEN "aborted" ELSE "tests"

\* The iterator goes on to the next test whatever the closure returns.
AfterTest(outcome) == "tests"

\* .filter(|..| outcome.unwrap_or(false)).count()
CountSuccess(count, outcome) == IF UnwrapOr(outcome, FALSE) THEN count + 1 ELSE count

\* successes as f32 / enabled_count as f32 * 100.0
F32Percent(s, e) ==
    IF e = 0
    THEN [kind |-> IF s = 0 THEN "NaN" ELSE "inf", num |-> 0, den |-> 0]
    ELSE [kind |-> "finite", num |-> s * 100, den |-> e]

\* The arguments of the final println!
SummaryLine(s, e, total) ==
    [passed |-> s, enabled |-> e, percent |-> F32Percent(s, e), ignored |-> total - e]

(***************************************************************************)
(* Inputs: the command lines and the lines standard input can deliver.     *)
(***************************************************************************)
\* 'a', '1', '!', and the two-byte 'e' with acute accent
Alphabet == {97, 49, 33, 233}

StringsUpTo(n) == UNION {[1..k -> Alphabet] : k \in 0..n}

\* "password", "Xk9#mQ2!", and four two-byte characters (8 bytes)
NamedPasswords ==
    { <<112, 97, 115, 115, 119, 111, 114, 100>>,
      <<88, 107, 57, 35, 109, 81, 50, 33>>,
      <<233, 233, 233, 233>> }

Passwords == StringsUpTo(MaxPassLen) \cup NamedPasswords

WordlistPaths == {"missing.txt", "empty.txt", "words.txt", "pw.txt"}

MinLengths == {2, 3}

Similarities == {50, 100, 255}

OptionOf(S) == {None} \cup {Some(x) : x \in S}

Clis ==
    [ password : OptionOf(Passwords),
      wordlist : OptionOf(WordlistPaths),
      min_length : OptionOf(MinLengths),
      ignore : OptionOf(SUBSET Ignores \ {{}}),
      similarity : OptionOf(Similarities) ]

\* What one read_line can append: nothing (end of file), a line with its
\* terminator, or a last line without one.
StdinLines ==
    {<<>>} \cup {body \o term : body \in StringsUpTo(1) \cup {<<97, 49>>},
                               term \in {<<>>, <<LF>>, <<CR, LF>>}}

(***************************************************************************)
(* main                                                                    *)
(***************************************************************************)
Init ==
    /\ cli \in Clis
    /\ buf = <<>>
    /\ password = <<>>
    /\ pc = "start"
    /\ idx = 1
    /\ results = <<>>
    /\ enabled_count = 0
    /\ successes = 0
    /\ summary = None

\* if let Some(ref password) = cli.password { password }
TakeArgument ==
    /\ pc = "start"
    /\ IsSome(cli.password)
    /\ password' = cli.password[1]
    /\ pc' = "tests"
    /\ UNCHANGED <<cli, buf, idx, results, enabled_count, successes, summary>>

\* stdin.read_line(&mut buf) returns Err: the message is printed and main returns
ReadLineErr ==
    /\ pc = "start"
    /\ cli.password = None
    /\ pc' = "aborted"
    /\ UNCHANGED <<cli, buf, password, idx, results, enabled_count, successes, summary>>

\* stdin.read_line(&mut buf) returns Ok: the line, if any, is appended to buf
ReadLineOk ==
    /\ pc = "start"
    /\ cli.password = None
    /\ \E line \in StdinLines : buf' = buf \o line
    /\ pc' = "pop"
    /\ UNCHANGED <<cli, password, idx, results, enabled_count, successes, summary>>

\* match buf.pop() { Some('\n') => () ... }
PopNewline ==
    /\ pc = "pop"
    /\ Len(buf) > 0 /\ buf[Len(buf)] = LF
    /\ buf' = SubSeq(buf, 1, Len(buf) - 1)
    /\ password' = buf'
    /\ pc' = "tests"
    /\ UNCHANGED <<cli, idx, results, enabled_count, successes, summary>>

\* match buf.pop() { ... Some(ch) => buf.push(ch) ... }
PopOtherChar ==
    /\ pc = "pop"
    /\ Len(buf) > 0 /\ buf[Len(buf)] # LF
    /\ buf' = Append(SubSeq(buf, 1, Len(buf) - 1), buf[Len(buf)])
    /\ password' = buf'
    /\ pc' = "tests"
    /\ UNCHANGED <<cli, idx, results, enabled_count, successes, summary>>

\* match buf.pop() { ... None => unreachable!(..) }: the process panics
PopNone ==
    /\ pc = "pop"
    /\ Len(buf) = 0
    /\ pc' = "unreachable"
    /\ UNCHANGED <<cli, buf, password, idx, results, enabled_count, successes, summary>>

\* One pass through the closure of tests.iter().filter(..)
RunTest ==
    /\ pc = "tests"
    /\ idx <= Len(Tests(cli))
    /\ \E t \in {Tests(cli)[idx]} :
         \E r \in {Evaluate(t, cli, password)} :
            /\ results' = Append(results, [name |-> t.name, ignore |-> t.ignore,
                                           outcome |-> r[1], info |-> r[2]])
            /\ enabled_count' = CountEnabled(enabled_count, r[1])
            /\ successes' = CountSuccess(successes, r[1])
            /\ pc' = AfterTest(r[1])
    /\ idx' = idx + 1
    /\ UNCHANGED <<cli, buf, password, summary>>

\* println!("Passed {} out of {} tests ({}%), {} ignored", ..)
PrintSummary ==
    /\ pc = "tests"
    /\ idx > Len(Tests(cli))
    /\ summary' = Some(SummaryLine(successes, enabled_count, Len(Tests(cli))))
    /\ pc' = "done"
    /\ UNCHANGED <<cli, buf, password, idx, results, enabled_count, successes>>

Next ==
    \/ TakeArgument
    \/ ReadLineErr
    \/ ReadLineOk
    \/ PopNewline
    \/ PopOtherChar
    \/ PopNone
    \/ RunTest
    \/ PrintSummary

Spec == Init /\ [][Next]_vars

\* The process is single-threaded and runs to completion: every step that can
\* be taken is taken.
FairSpec == Spec /\ WF_vars(Next)

(***************************************************************************)
(* Vocabulary of the properties.                                           *)
(***************************************************************************)
Pass == Some(TRUE)
Fail == Some(FALSE)
Ignored == None

RuleOrder == <<"MinimumChars", "Numbers", "SpecialChars", "WordlistCollisions">>

Finished == pc = "done"

\* The positions of `results` that hold the outcome of rule `rule`.
ResultsOf(rule) == {i \in 1..Len(results) : results[i].ignore = rule}

InIgnoreSet(rule) == cli.ignore # None /\ rule \in cli.ignore[1]

\* The wordlist of this run is readable, and these are its entries.
CorpusReadable == cli.wordlist = None \/ cli.wordlist[1] \in DOMAIN Files
Corpus == IF cli.wordlist = None THEN WORDLIST ELSE Lines(Files[cli.wordlist[1]])

\* min(configured similarity or 97, 99), in percent
ThresholdPercent ==
    LET configured == IF cli.similarity = None THEN 97 ELSE cli.similarity[1]
    IN IF configured > 99 THEN 99 ELSE configured

\* similarity(password, entry) >= ThresholdPercent / 100
AtOrAboveThreshold(entry) ==
    LET score == compare_similarity(password, entry)
    IN score.num * 100 >= ThresholdPercent * score.den

CountOutcome(o) == Cardinality({i \in 1..Len(results) : results[i].outcome = o})

StrPassword == <<112, 97, 115, 115, 119, 111, 114, 100>>
StrXk9 == <<88, 107, 57, 35, 109, 81, 50, 33>>

(***************************************************************************)
(* C1: wordlist-collision rule over a readable, non-empty corpus: the      *)
(* outcome is Fail when the best similarity is at or above the effective   *)
(* threshold and Pass when it is below; over ["password", "qwerty"] at the *)
(* default 97%, "password" fails and "Xk9#mQ2!" passes.                    *)
(***************************************************************************)
C1_FailIffAtOrAboveThreshold ==
    \A i \in ResultsOf("WordlistCollisions") :
        (results[i].outcome # Ignored /\ CorpusReadable /\ Len(Corpus) > 0) =>
            /\ results[i].outcome =
                   IF \E k \in 1..Len(Corpus) : AtOrAboveThreshold(Corpus[k]) THEN Fail ELSE Pass
            /\ (cli.wordlist = Some("pw.txt") /\ cli.similarity = None) =>
                   /\ password = StrPassword => results[i].outcome = Fail
                   /\ password = StrXk9 => results[i].outcome = Pass

C1_Witness ==
    /\ Finished
    /\ password = StrPassword
    /\ cli.wordlist = Some("pw.txt")
    /\ cli.similarity = None
    /\ results[4].outcome = Fail

(***************************************************************************)
(* C2: minimum-length rule: the outcome is Pass iff the password's number  *)
(* of code points is at least the minimum (default 8), and the failure     *)
(* detail reports that number of code points and the minimum.              *)
(***************************************************************************)
C2_LengthIsCodePointCount ==
    \A i \in ResultsOf("MinimumChars") :
        results[i].outcome # Ignored =>
            LET min == IF cli.min_length = None THEN 8 ELSE cli.min_length[1]
            IN IF CharCount(password) >= min
               THEN results[i].outcome = Pass
               ELSE /\ results[i].outcome = Fail
                    /\ results[i].info.msg = "Password too short: {}/{} characters"
                    /\ results[i].info.args = <<CharCount(password), min>>

(***************************************************************************)
(* C3: when no rule is enabled, the summary reports the pass percentage as *)
(* an explicit sentinel; NaN is never printed.                             *)
(***************************************************************************)
C3_NoNaNInSummary ==
    (summary # None /\ summary[1].enabled = 0) => summary[1].percent.kind # "NaN"

(***************************************************************************)
(* C4: a rule's outcome is Ignored if and only if its identifier is in the *)
(* ignore set; an ignored rule's check is not run (its detail is the       *)
(* "disabled" one, also for an unreadable wordlist path).                  *)
(***************************************************************************)
C4_IgnoredIffInIgnoreSet ==
    \A i \in 1..Len(results) :
        /\ results[i].outcome = Ignored <=> InIgnoreSet(results[i].ignore)
        /\ InIgnoreSet(results[i].ignore) =>
               results[i].info = Info("disabled with -i {:?}", <<results[i].ignore>>)

C4_Witness ==
    /\ Finished
    /\ cli.wordlist = Some("missing.txt")
    /\ cli.ignore = Some({"WordlistCollisions"})
    /\ results[4].outcome = Ignored
    /\ results[1].outcome # Ignored

(***************************************************************************)
(* C5: the threshold is clamped to 99%: a password identical to a wordlist *)
(* entry fails the wordlist-collision rule under every configured          *)
(* similarity, including 100 and above.                                    *)
(***************************************************************************)
C5_ExactMatchAlwaysFails ==
    \A i \in ResultsOf("WordlistCollisions") :
        (/\ results[i].outcome # Ignored
         /\ CorpusReadable
         /\ \E k \in 1..Len(Corpus) : Corpus[k] = password) =>
            results[i].outcome = Fail

C5_Witness ==
    /\ Finished
    /\ cli.similarity = Some(255)
    /\ cli.wordlist = Some("words.txt")
    /\ password = <<97, 49>>
    /\ results[4].outcome = Fail

(***************************************************************************)
(* C6: an unreadable wordlist path, rule not ignored: the rule fails with  *)
(* a detail naming the path, counts as enabled and not passed, and the     *)
(* other three rules have the outcomes they have with a readable wordlist. *)
(***************************************************************************)
C6_UnreadableWordlistFails ==
    (/\ Finished
     /\ cli.wordlist # None
     /\ ~CorpusReadable
     /\ ~InIgnoreSet("WordlistCollisions")) =>
        LET readable == [cli EXCEPT !.wordlist = Some("words.txt")]
            others == {i \in 1..3 : results[i].outcome # Ignored}
        IN /\ results[4].outcome = Fail
           /\ results[4].info.msg = "Failed to read file '{}'. Aborting."
           /\ results[4].info.args = <<cli.wordlist[1]>>
           /\ \A i \in 1..3 :
                  /\ results[i].outcome = Evaluate(Tests(readable)[i], readable, password)[1]
                  /\ results[i].info = Evaluate(Tests(readable)[i], readable, password)[2]
           /\ summary[1].enabled = Cardinality(others) + 1
           /\ summary[1].passed = Cardinality({i \in others : results[i].outcome = Pass})

C6_Witness ==
    /\ Finished
    /\ cli.wordlist = Some("missing.txt")
    /\ results[4].outcome = Fail
    /\ results[1].outcome = Pass
    /\ summary[1].enabled = 4

(***************************************************************************)
(* C7: over an empty corpus there is no best match and the                 *)
(* wordlist-collision rule fails.                                          *)
(***************************************************************************)
C7_EmptyCorpusFails ==
    \A i \in ResultsOf("WordlistCollisions") :
        (results[i].outcome # Ignored /\ CorpusReadable /\ Len(Corpus) = 0) =>
            /\ results[i].outcome = Fail
            /\ results[i].info.msg # "Best match in wordlist is {} with similarity {}%"

C7_Witness ==
    /\ Finished
    /\ cli.wordlist = Some("empty.txt")
    /\ results[4].outcome = Fail

(***************************************************************************)
(* C8: after a run, total = 4, enabled = total - number of Ignored         *)
(* outcomes, passed = number of Pass outcomes, passed <= enabled <= total, *)
(* the reported ignored count is total - enabled, and the percentage is    *)
(* passed / enabled * 100.                                                 *)
(***************************************************************************)
C8_SummaryCounts ==
    Finished =>
        LET total == Len(results)
            s == summary[1]
        IN /\ total = 4
           /\ s.enabled = total - CountOutcome(Ignored)
           /\ s.passed = CountOutcome(Pass)
           /\ s.passed <= s.enabled /\ s.enabled <= total
           /\ s.ignored = total - s.enabled
           /\ s.enabled > 0 =>
                  /\ s.percent.kind = "finite"
                  /\ s.percent.num * s.enabled = s.passed * 100 * s.percent.den
           /\ s.enabled = 0 => s.percent.kind = "NaN"

C8_Witness ==
    /\ Finished
    /\ summary[1].passed = 2
    /\ summary[1].enabled = 3
    /\ summary[1].ignored = 1

(***************************************************************************)
(* C9: the four rules are processed once each, one after the other, in the *)
(* order length, digits, special characters, wordlist collision; a Fail    *)
(* does not stop the run, which always reaches the summary.                *)
(***************************************************************************)
C9_InOrder ==
    /\ Len(results) = idx - 1
    /\ Len(results) <= 4
    /\ \A i \in 1..Len(results) : results[i].ignore = RuleOrder[i]
    /\ Finished => Len(results) = 4
    /\ pc \in {"start", "pop", "aborted", "unreachable"} => results = <<>>

C9_OneAtATime ==
    \/ results' = results
    \/ /\ Len(results') = Len(results) + 1
       /\ SubSeq(results', 1, Len(results)) = results

C9_AllRulesRunInOrderToSummary ==
    /\ []C9_InOrder
    /\ [][C9_OneAtATime]_vars
    /\ (pc = "tests") ~> Finished

C9_Witness ==
    /\ Finished
    /\ Len(results) = 4
    /\ results[1].outcome = Fail
    /\ results[2].outcome = Fail
    /\ results[4].outcome = Pass

(***************************************************************************)
(* C10: after a successful read of a line from standard input the buffer   *)
(* is never empty, so the unreachable!() branch is never taken.            *)
(***************************************************************************)
C10_UnreachableNeverReached ==
    /\ pc = "pop" => Len(buf) > 0
    /\ pc # "unreachable"

====
